---- MODULE Spec2Model ----
(***************************************************************************)
(* The access/refresh credential renewal protocol of the Next.js client:   *)
(* lib/auth.ts (cookie store helpers and fetchWithAuth), the login and     *)
(* logout Server Actions.  Every `await` that touches the cookie store is  *)
(* a suspension point, so each store read or write is a step of its own;   *)
(* the two mutations inside one extractAndSetCookies or clearAuthCookies   *)
(* call have no `await` between them and are one step.                     *)
(***************************************************************************)
EXTENDS Integers, Sequences, FiniteSets, TLC

\* Number of credential pairs the remote service issues in one behaviour.
MaxGen == 2

\* Logical calls that can be in flight at once on the one cookie store.
Procs == {"p1", "p2"}

\* cookieStore.get(name)?.value of a cookie that is not set (undefined).
Absent == 0

\* The values of the g-th pair the remote service issues.
AccessOf(g) == 2 * g - 1
RefreshOf(g) == 2 * g
IssuedRefresh(g) == {RefreshOf(k) : k \in 1..g}

\* HTTP statuses the remote service answers with.
Status == {200, 401, 403, 500}

StatsUrl == "/api/user/stats"
RefreshUrl == "/api/auth/refresh"
LoginUrl == "/api/auth/login"
LogoutUrl == "/api/auth/logout"
Urls == {StatsUrl}
Methods == {"GET"}

JsonType == "application/json"
NoHeaders == <<>>
BaseHeaders == "Content-Type" :> JsonType

\* A Cookie header the caller passes in options.headers.
CallerCookie == << <<"caller_cookie", Absent>> >>
CallerOverride ==
    ("Cookie" :> CallerCookie) @@ ("Content-Type" :> "text/plain")
    @@ ("X-Request-Id" :> "r1")
CallerHeaders == {NoHeaders, CallerOverride}

\* The cookie store: the value of each of the two cookies and the maxAge it
\* was set with (Absent for a cookie that is not set).
EmptyStore ==
    [access_token |-> Absent, refresh_token |-> Absent,
     maxAge |-> [access_token |-> Absent, refresh_token |-> Absent]]

\* maxAge of the two cookies, in seconds.
AccessMaxAge == 15 * 60
RefreshMaxAge == 10080 * 60

\* cookieStore.set(name, value, { ..., maxAge })
CookieSet(cookieStore, name, value, maxAge) ==
    [cookieStore EXCEPT ![name] = value, !.maxAge[name] = maxAge]

\* cookieStore.delete(name): nothing happens when the cookie is not set.
CookieDelete(cookieStore, name) ==
    [cookieStore EXCEPT ![name] = Absent, !.maxAge[name] = Absent]

(***************************************************************************)
(* lib/auth.ts: pure helpers.                                              *)
(***************************************************************************)

\* A cookie name that ends in `name`: the pattern is not anchored, so it is
\* found in a directive for that cookie as well.
Suffixed(name) ==
    IF name = "access_token" THEN "x_access_token" ELSE "x_refresh_token"

\* setCookieHeader.match(/<name>=([^;]+)/): the captured value, or Absent
\* when the directive does not assign a non-empty value to that name.
Match(directive, name) ==
    IF directive.name \in {name, Suffixed(name)} /\ directive.value # Absent
    THEN directive.value
    ELSE Absent

\* A slip: only the first directive is scanned.
extractAndSetCookies_FirstOnly(setCookieHeaders, cookieStore) ==
    IF setCookieHeaders = <<>>
    THEN cookieStore
    ELSE LET setCookieHeader == Head(setCookieHeaders)
             accessTokenMatch == Match(setCookieHeader, "access_token")
             s1 == IF accessTokenMatch # Absent
                   THEN CookieSet(cookieStore, "access_token", accessTokenMatch, AccessMaxAge)
                   ELSE cookieStore
             refreshTokenMatch == Match(setCookieHeader, "refresh_token")
         IN  IF refreshTokenMatch # Absent
             THEN CookieSet(s1, "refresh_token", refreshTokenMatch, RefreshMaxAge)
             ELSE s1

\* A slip: only the refresh_token directive is stored.
RECURSIVE extractAndSetCookies_RefreshOnly(_, _)
extractAndSetCookies_RefreshOnly(setCookieHeaders, cookieStore) ==
    IF setCookieHeaders = <<>>
    THEN cookieStore
    ELSE LET refreshTokenMatch == Match(Head(setCookieHeaders), "refresh_token")
         IN  extractAndSetCookies_RefreshOnly(
                 Tail(setCookieHeaders),
                 IF refreshTokenMatch # Absent
                 THEN CookieSet(cookieStore, "refresh_token", refreshTokenMatch, RefreshMaxAge)
                 ELSE cookieStore)

RECURSIVE extractAndSetCookies(_, _)
extractAndSetCookies(setCookieHeaders, cookieStore) ==
    IF setCookieHeaders = <<>>
    THEN cookieStore
    ELSE LET setCookieHeader == Head(setCookieHeaders)
             accessTokenMatch == Match(setCookieHeader, "access_token")
             s1 == IF accessTokenMatch # Absent
                   THEN CookieSet(cookieStore, "access_token", accessTokenMatch, AccessMaxAge)
                   ELSE cookieStore
             refreshTokenMatch == Match(setCookieHeader, "refresh_token")
             s2 == IF refreshTokenMatch # Absent
                   THEN CookieSet(s1, "refresh_token", refreshTokenMatch, RefreshMaxAge)
                   ELSE s1
         IN  extractAndSetCookies(Tail(setCookieHeaders), s2)

\* maxAge of the access_token cookie as extractAndSetCookie sets it.
WeekMaxAge == 7 * 24 * 60 * 60

\* string.match(/<name>=([^;]+)/) on the Set-Cookie values joined into one
\* string: the leftmost place where the pattern matches.
RECURSIVE FirstMatch(_, _)
FirstMatch(directives, name) ==
    IF directives = <<>> THEN Absent
    ELSE IF Match(Head(directives), name) # Absent THEN Match(Head(directives), name)
    ELSE FirstMatch(Tail(directives), name)

\* extractAndSetCookie(setCookieHeader: string) of app/dashboard/page.tsx: the
\* access_token alone, from one string.
extractAndSetCookie(setCookieHeader, cookieStore) ==
    LET accessTokenMatch == FirstMatch(setCookieHeader.joined, "access_token")
    IN  IF accessTokenMatch # Absent
        THEN CookieSet(cookieStore, "access_token", accessTokenMatch, WeekMaxAge)
        ELSE cookieStore

getAuthToken(cookieStore) == cookieStore.access_token

getRefreshToken(cookieStore) == cookieStore.refresh_token

NoAuthToken == "No authentication token found"

\* A slip: the refresh token is accepted in place of the access token.
requireAuth_EitherToken(cookieStore) ==
    IF cookieStore.access_token # Absent THEN cookieStore.access_token
    ELSE cookieStore.refresh_token

\* requireAuth: the access token, or Absent where the function throws
\* 'No authentication token found'.
requireAuth(cookieStore) == getAuthToken(cookieStore)

\* The pairs joined by '; ' into the Cookie header, access first.
CookieHeader(accessToken, refreshToken) ==
    (IF accessToken # Absent THEN << <<"access_token", accessToken>> >> ELSE <<>>)
    \o (IF refreshToken # Absent THEN << <<"refresh_token", refreshToken>> >> ELSE <<>>)

\* A slip: only the access token goes into the Cookie header.
getAuthHeaders_AccessOnly(accessToken, refreshToken) ==
    IF accessToken # Absent
    THEN ("Cookie" :> << <<"access_token", accessToken>> >>) @@ BaseHeaders
    ELSE BaseHeaders

getAuthHeaders(accessToken, refreshToken) ==
    LET cookieHeader == CookieHeader(accessToken, refreshToken)
    IN  IF Len(cookieHeader) > 0
        THEN ("Cookie" :> cookieHeader) @@ BaseHeaders
        ELSE BaseHeaders

\* Slips: one of the two deletes is missing, or both are.
clearAuthCookies_AccessOnly(cookieStore) == CookieDelete(cookieStore, "access_token")
clearAuthCookies_RefreshOnly(cookieStore) == CookieDelete(cookieStore, "refresh_token")
clearAuthCookies_Nothing(cookieStore) == cookieStore

clearAuthCookies(cookieStore) ==
    CookieDelete(CookieDelete(cookieStore, "access_token"), "refresh_token")

\* A slip: the spreads are in the other order, the credential headers win.
MergeHeaders_CredentialsWin(headers, callerHeaders) == headers @@ callerHeaders

\* { ...headers, ...fetchOptions.headers }: the later spread wins.
MergeHeaders(headers, callerHeaders) == callerHeaders @@ headers

\* A slip: every status counts as a success.
Ok_Always(status) == TRUE

\* response.ok
Ok(status) == status \in 200..299

\* Slips: every error status triggers the renewal; skipRefresh is ignored.
ShouldRefresh_AnyError(status, skipRefresh) == status >= 400 /\ ~skipRefresh
ShouldRefresh_IgnoreSkip(status, skipRefresh) == status = 401

\* response.status === 401 && !skipRefresh
ShouldRefresh(status, skipRefresh) == status = 401 /\ ~skipRefresh

\* A slip: the refresh credential is sent under the access cookie's name.
RefreshRequestHeaders_WrongCookie(refreshToken) ==
    ("Cookie" :> << <<"access_token", refreshToken>> >>) @@ BaseHeaders

\* Headers of the call to the refresh endpoint.
RefreshRequestHeaders(refreshToken) ==
    ("Cookie" :> << <<"refresh_token", refreshToken>> >>) @@ BaseHeaders

\* A slip: the retry's response is awaited and never handed to the caller.
AfterRetry_NeverSettles(status) == "Pending"

\* A slip: a 401 on the retry starts another renewal.
AfterRetry_RenewAgain(status) == IF status = 401 THEN "Unauthorized" ELSE "Done"

\* What the retry's response leads to: it is returned, whatever its status.
AfterRetry(status) == "Done"

\* A slip: the initial call is inside the try block, its fault clears the store.
OnInitialFault_Clear(cookieStore) == EmptyStore

\* The store when the initial call's fetch rejects: nothing catches it.
OnInitialFault(cookieStore) == cookieStore

\* A slip: the store is cleared before the throw.
OnNoRefreshToken_Clear(cookieStore) == EmptyStore

\* The store when fetchWithAuth throws for want of a refresh token.
OnNoRefreshToken(cookieStore) == cookieStore

(***************************************************************************)
(* The remote service (not part of this repository): its replies are       *)
(* inputs.  With `rotation` it keeps one valid refresh credential, rotates *)
(* it on every renewal and revokes the session when an already rotated one *)
(* is presented again; without it, it answers anything.                    *)
(***************************************************************************)

VARIABLES store, gen, srvRefresh, revoked, rotation, pc, args, loc, inflight, calls,
          outcomes, result

vars == <<store, gen, srvRefresh, revoked, rotation, pc, args, loc, inflight, calls,
          outcomes, result>>
srvVars == <<gen, srvRefresh, revoked, rotation>>

PairDirectives(g) ==
    << [name |-> "access_token", value |-> AccessOf(g)],
       [name |-> "refresh_token", value |-> RefreshOf(g)] >>

\* The Set-Cookie directives of a success reply that reach the client.
DirectiveChoices(g) ==
    { PairDirectives(g), <<PairDirectives(g)[1]>>, <<PairDirectives(g)[2]>>, <<>> }

Reply(fault, status, directives, g, cur, rev) ==
    [fault |-> fault, status |-> status, directives |-> directives,
     gen |-> g, srvRefresh |-> cur, revoked |-> rev]

Unchanged(fault, status) == Reply(fault, status, <<>>, gen, srvRefresh, revoked)

\* A protected endpoint: any status, or the fetch rejects.
ProtectedReplies ==
    {Unchanged(TRUE, Absent)} \cup {Unchanged(FALSE, s) : s \in Status}

\* POST /api/auth/refresh presenting refresh credential tok.
RefreshReplies(tok) ==
    LET failures == {Unchanged(TRUE, Absent)}
                    \cup {Unchanged(FALSE, s) : s \in Status \ {200}}
        issue(cur) == {Reply(FALSE, 200, ds, gen + 1, cur, revoked) :
                          ds \in DirectiveChoices(gen + 1)}
    IN  IF ~rotation
        THEN failures \cup (IF gen < MaxGen THEN issue(srvRefresh) ELSE {})
        ELSE IF tok = srvRefresh /\ tok # Absent
        THEN failures \cup (IF gen < MaxGen THEN issue(RefreshOf(gen + 1)) ELSE {})
        ELSE IF tok \in IssuedRefresh(gen)
        THEN {Unchanged(TRUE, Absent), Reply(FALSE, 401, <<>>, gen, Absent, TRUE)}
        ELSE failures

\* POST /api/auth/login.
LoginReplies ==
    LET failures == {Unchanged(TRUE, Absent)}
                    \cup {Unchanged(FALSE, s) : s \in Status \ {200}}
        cur == IF rotation THEN RefreshOf(gen + 1) ELSE srvRefresh
    IN  failures \cup
        (IF gen < MaxGen
         THEN {Reply(FALSE, 200, ds, gen + 1, cur, FALSE) :
                  ds \in DirectiveChoices(gen + 1)}
         ELSE {})

\* POST /api/auth/logout presenting refresh credential tok.
LogoutReplies(tok) ==
    {Unchanged(TRUE, Absent)} \cup {Unchanged(FALSE, s) : s \in Status \ {200}}
    \cup {Reply(FALSE, 200, <<>>, gen,
                IF tok = srvRefresh THEN Absent ELSE srvRefresh, revoked)}

Served(reply) ==
    /\ gen' = reply.gen
    /\ srvRefresh' = reply.srvRefresh
    /\ revoked' = reply.revoked
    /\ UNCHANGED rotation

(***************************************************************************)
(* The state of one logical call.                                          *)
(***************************************************************************)

NoArgs == [url |-> "", method |-> "", skipRefresh |-> FALSE, headers |-> NoHeaders]
NoLoc == [accessToken |-> Absent, refreshToken |-> Absent, setCookieHeaders |-> <<>>,
          error |-> "", headers |-> NoHeaders]
NoCall == [kind |-> "none"]
NoResult == [kind |-> "none"]

Call(kind, url, headers) == [kind |-> kind, url |-> url, headers |-> headers]

\* fetch(url, { ...fetchOptions, headers }): the caller's options go with it.
Request(kind, fetchArgs, headers) ==
    ("method" :> fetchArgs.method)
    @@ Call(kind, fetchArgs.url, MergeHeaders(headers, fetchArgs.headers))
Response(kind, status) == [kind |-> "response", call |-> kind, status |-> status]
Failure(error) == [kind |-> "error", error |-> error]

SessionExpired == "Session expired. Please login again."
NoRefreshCredential == "Unauthorized: No refresh token available"

Init ==
    /\ store = EmptyStore
    /\ gen = 0
    /\ srvRefresh = Absent
    /\ revoked = FALSE
    /\ rotation \in BOOLEAN
    /\ pc = [p \in Procs |-> "Idle"]
    /\ args = [p \in Procs |-> NoArgs]
    /\ loc = [p \in Procs |-> NoLoc]
    /\ inflight = [p \in Procs |-> NoCall]
    /\ calls = [p \in Procs |-> <<>>]
    /\ outcomes = [p \in Procs |-> <<>>]
    /\ result = [p \in Procs |-> NoResult]

Goto(p, label) == pc' = [pc EXCEPT ![p] = label]

\* fetch(...): the request is in flight until its outcome arrives; calls keeps
\* the kinds of the requests the logical call has issued, in order.
Issue(p, call) ==
    /\ inflight' = [inflight EXCEPT ![p] = call]
    /\ calls' = [calls EXCEPT ![p] = Append(@, call.kind)]

\* The awaited fetch settles: outcomes keeps, in order, how each request of the
\* logical call ended (a response status, or a fault when the fetch rejects).
Outcome(reply) == [fault |-> reply.fault, status |-> reply.status]

Arrived(p, reply) ==
    /\ inflight' = [inflight EXCEPT ![p] = NoCall]
    /\ outcomes' = [outcomes EXCEPT ![p] = Append(@, Outcome(reply))]

\* The function returns or throws: its locals are gone.
Finish(p, label, res) ==
    /\ Goto(p, label)
    /\ result' = [result EXCEPT ![p] = res]
    /\ loc' = [loc EXCEPT ![p] = NoLoc]

\* The value a request's Cookie header gives to cookie `name`, as the remote
\* service reads it.
RECURSIVE PairValue(_, _)
PairValue(pairs, name) ==
    IF pairs = <<>> THEN Absent
    ELSE IF Head(pairs)[1] = name THEN Head(pairs)[2]
    ELSE PairValue(Tail(pairs), name)

CookieValue(headers, name) ==
    IF "Cookie" \in DOMAIN headers THEN PairValue(headers["Cookie"], name) ELSE Absent

(***************************************************************************)
(* fetchWithAuth(url, options).                                            *)
(***************************************************************************)

\* The caller invokes fetchWithAuth; skipRefresh is split from the options.
Execute(p) ==
    /\ pc[p] = "Idle"
    /\ \E url \in Urls, method \in Methods, skipRefresh \in BOOLEAN,
          headers \in CallerHeaders :
          args' = [args EXCEPT ![p] = [url |-> url, method |-> method,
                                       skipRefresh |-> skipRefresh,
                                       headers |-> headers]]
    /\ Goto(p, "Initial")
    /\ UNCHANGED <<store, srvVars, loc, inflight, calls, result, outcomes>>

\* getAuthHeaders: getAuthToken.
ReadAccess(p) ==
    /\ pc[p] = "Initial"
    /\ loc' = [loc EXCEPT ![p].accessToken = getAuthToken(store)]
    /\ Goto(p, "Headers")
    /\ UNCHANGED <<store, srvVars, args, inflight, calls, result, outcomes>>

\* getAuthHeaders: getRefreshToken; then the initial call is issued.
SendInitial(p) ==
    /\ pc[p] = "Headers"
    /\ LET headers == getAuthHeaders(loc[p].accessToken, getRefreshToken(store))
       IN  /\ Issue(p, Request("initial", args[p], headers))
           /\ loc' = [loc EXCEPT ![p].accessToken = Absent, ![p].headers = headers]
    /\ Goto(p, "Sent")
    /\ UNCHANGED <<store, srvVars, args, result, outcomes>>

\* The initial call's outcome: a fault propagates; a response that is not a
\* 401, or any response under skipRefresh, is returned.
InitialResponse(p) ==
    /\ pc[p] = "Sent"
    /\ \E reply \in ProtectedReplies :
          /\ Served(reply)
          /\ IF reply.fault
             THEN /\ store' = OnInitialFault(store)
                  /\ Finish(p, "Failed", Failure("fetch failed"))
             ELSE IF ShouldRefresh(reply.status, args[p].skipRefresh)
             THEN Goto(p, "Unauthorized") /\ UNCHANGED <<store, loc, result>>
             ELSE /\ Finish(p, "Done", Response("initial", reply.status))
                  /\ UNCHANGED store
          /\ Arrived(p, reply)
    /\ UNCHANGED <<args, calls>>

\* getRefreshToken after the 401: without one the call fails; with one the
\* renewal call is issued.
StartRenewal(p) ==
    /\ pc[p] = "Unauthorized"
    /\ LET refreshToken == getRefreshToken(store)
       IN  IF refreshToken = Absent
           THEN /\ store' = OnNoRefreshToken(store)
                /\ Finish(p, "Failed", Failure(NoRefreshCredential))
                /\ UNCHANGED <<inflight, calls>>
           ELSE /\ Issue(p, Call("renew", RefreshUrl,
                                 RefreshRequestHeaders(refreshToken)))
                /\ loc' = [loc EXCEPT ![p].refreshToken = refreshToken]
                /\ Goto(p, "Renewing")
                /\ UNCHANGED <<store, result>>
    /\ UNCHANGED <<srvVars, args, outcomes>>

\* The renewal call's outcome.
RenewalResponse(p) ==
    /\ pc[p] = "Renewing"
    /\ \E reply \in RefreshReplies(CookieValue(inflight[p].headers, "refresh_token")) :
          /\ Served(reply)
          /\ IF reply.fault
             THEN /\ loc' = [loc EXCEPT ![p].error = "fetch failed",
                                         ![p].headers = NoHeaders]
                  /\ Goto(p, "Catch")
             ELSE IF ~Ok(reply.status)
             THEN /\ Goto(p, "Rejected")
                  /\ loc' = [loc EXCEPT ![p].headers = NoHeaders]
             ELSE /\ loc' = [loc EXCEPT ![p].setCookieHeaders = reply.directives,
                                         ![p].headers = NoHeaders]
                  /\ Goto(p, IF Len(reply.directives) > 0 THEN "Persist" ELSE "Renewed")
          /\ Arrived(p, reply)
    /\ UNCHANGED <<store, args, calls, result>>

\* Renewal rejected: clearAuthCookies, then throw 'Session expired...'.
ClearRejected(p) ==
    /\ pc[p] = "Rejected"
    /\ store' = clearAuthCookies(store)
    /\ loc' = [loc EXCEPT ![p].error = SessionExpired]
    /\ Goto(p, "Catch")
    /\ UNCHANGED <<srvVars, args, inflight, calls, result, outcomes>>

\* Renewal accepted: extractAndSetCookies on its Set-Cookie directives.
Persist(p) ==
    /\ pc[p] = "Persist"
    /\ store' = extractAndSetCookies(loc[p].setCookieHeaders, store)
    /\ Goto(p, "Renewed")
    /\ UNCHANGED <<srvVars, args, loc, inflight, calls, result, outcomes>>

\* getAuthHeaders for the retry: getAuthToken.
RereadAccess(p) ==
    /\ pc[p] = "Renewed"
    /\ loc' = [loc EXCEPT ![p].accessToken = getAuthToken(store)]
    /\ Goto(p, "NewHeaders")
    /\ UNCHANGED <<store, srvVars, args, inflight, calls, result, outcomes>>

\* getAuthHeaders for the retry: getRefreshToken; then the retry is issued.
SendRetry(p) ==
    /\ pc[p] = "NewHeaders"
    /\ LET newHeaders == getAuthHeaders(loc[p].accessToken, getRefreshToken(store))
       IN  Issue(p, Request("retry", args[p], newHeaders))
    /\ loc' = [loc EXCEPT ![p].accessToken = Absent]
    /\ Goto(p, "Retried")
    /\ UNCHANGED <<store, srvVars, args, result, outcomes>>

\* The retry's outcome: its response is returned; a fault goes to the catch.
RetryResponse(p) ==
    /\ pc[p] = "Retried"
    /\ \E reply \in ProtectedReplies :
          /\ Served(reply)
          /\ IF reply.fault
             THEN /\ loc' = [loc EXCEPT ![p].error = "fetch failed"]
                  /\ Goto(p, "Catch")
                  /\ UNCHANGED result
             ELSE Finish(p, AfterRetry(reply.status), Response("retry", reply.status))
          /\ Arrived(p, reply)
    /\ UNCHANGED <<store, args, calls>>

\* catch (error): clearAuthCookies, then rethrow.
CatchClear(p) ==
    /\ pc[p] = "Catch"
    /\ store' = clearAuthCookies(store)
    /\ Finish(p, "Failed", Failure(loc[p].error))
    /\ UNCHANGED <<srvVars, args, inflight, calls, outcomes>>

\* The caller has the outcome; the logical call is over.
Return(p) ==
    /\ pc[p] \in {"Done", "Failed"}
    /\ Goto(p, "Idle")
    /\ args' = [args EXCEPT ![p] = NoArgs]
    /\ calls' = [calls EXCEPT ![p] = <<>>]
    /\ outcomes' = [outcomes EXCEPT ![p] = <<>>]
    /\ result' = [result EXCEPT ![p] = NoResult]
    /\ UNCHANGED <<store, srvVars, loc, inflight>>

(***************************************************************************)
(* login(email, password) and logout().                                    *)
(***************************************************************************)

Returned == [kind |-> "returned"]

\* login: the call to the login endpoint is issued.
Login(p) ==
    /\ pc[p] = "Idle"
    /\ Issue(p, Call("login", LoginUrl, BaseHeaders))
    /\ Goto(p, "LoginSent")
    /\ UNCHANGED <<store, srvVars, args, loc, result, outcomes>>

\* The login call's outcome: a fault or a non-success status fails the login.
LoginResponse(p) ==
    /\ pc[p] = "LoginSent"
    /\ \E reply \in LoginReplies :
          /\ Served(reply)
          /\ IF reply.fault
             THEN Finish(p, "Failed", Failure("fetch failed"))
             ELSE IF ~Ok(reply.status)
             THEN Finish(p, "Failed", Failure("Login failed"))
             ELSE IF Len(reply.directives) > 0
             THEN /\ loc' = [loc EXCEPT ![p].setCookieHeaders = reply.directives]
                  /\ Goto(p, "LoginPersist")
                  /\ UNCHANGED result
             ELSE Finish(p, "Done", Returned)
          /\ Arrived(p, reply)
    /\ UNCHANGED <<store, args, calls>>

\* login: extractAndSetCookies on the Set-Cookie directives.
LoginPersist(p) ==
    /\ pc[p] = "LoginPersist"
    /\ store' = extractAndSetCookies(loc[p].setCookieHeaders, store)
    /\ Finish(p, "Done", Returned)
    /\ UNCHANGED <<srvVars, args, inflight, calls, outcomes>>

\* logout: getRefreshToken; with one, the logout call is issued.
Logout(p) ==
    /\ pc[p] = "Idle"
    /\ LET refreshToken == getRefreshToken(store)
       IN  IF refreshToken # Absent
           THEN /\ Issue(p, Call("logout", LogoutUrl,
                                 RefreshRequestHeaders(refreshToken)))
                /\ Goto(p, "LogoutSent")
           ELSE /\ Goto(p, "LogoutClear")
                /\ UNCHANGED <<inflight, calls>>
    /\ UNCHANGED <<store, srvVars, args, loc, result, outcomes>>

\* The logout call's outcome is ignored: a fault is caught and logged.
LogoutResponse(p) ==
    /\ pc[p] = "LogoutSent"
    /\ \E reply \in LogoutReplies(CookieValue(inflight[p].headers, "refresh_token")) :
          Served(reply) /\ Arrived(p, reply)
    /\ Goto(p, "LogoutClear")
    /\ UNCHANGED <<store, args, loc, calls, result>>

\* logout: clearAuthCookies.
LogoutClear(p) ==
    /\ pc[p] = "LogoutClear"
    /\ store' = clearAuthCookies(store)
    /\ Finish(p, "Done", Returned)
    /\ UNCHANGED <<srvVars, args, inflight, calls, outcomes>>

\* response.headers.get('set-cookie'): the values of all the Set-Cookie
\* headers joined by ', ' into one string; null (falsy) when there is none.
HeadersGet(directives) == [joined |-> directives]

\* if (setCookieHeader): neither null nor the empty string.
Truthy(string) == Len(string.joined) > 0

\* for (const c of string): a string iterates character by character, and no
\* single character matches /access_token=([^;]+)/ or /refresh_token=([^;]+)/.
Characters(string) ==
    [i \in 1..Len(string.joined) |-> [name |-> "character", value |-> Absent]]

\* login, get('set-cookie') variant: the call to the login endpoint is issued.
LoginGet(p) ==
    /\ pc[p] = "Idle"
    /\ Issue(p, Call("login", LoginUrl, BaseHeaders))
    /\ Goto(p, "LoginGetSent")
    /\ UNCHANGED <<store, srvVars, args, loc, result, outcomes>>

\* Its outcome: the one string of get('set-cookie') is what is handed on.
LoginGetResponse(p) ==
    /\ pc[p] = "LoginGetSent"
    /\ \E reply \in LoginReplies :
          /\ Served(reply)
          /\ LET setCookieHeader == HeadersGet(reply.directives)
             IN  IF reply.fault
                 THEN Finish(p, "Failed", Failure("fetch failed"))
                 ELSE IF ~Ok(reply.status)
                 THEN Finish(p, "Failed", Failure("Login failed"))
                 ELSE IF Truthy(setCookieHeader)
                 THEN /\ loc' = [loc EXCEPT ![p].setCookieHeaders =
                                                 Characters(setCookieHeader)]
                      /\ Goto(p, "LoginGetPersist")
                      /\ UNCHANGED result
                 ELSE Finish(p, "Done", Returned)
          /\ Arrived(p, reply)
    /\ UNCHANGED <<store, args, calls>>

\* extractAndSetCookies on the string.
LoginGetPersist(p) ==
    /\ pc[p] = "LoginGetPersist"
    /\ store' = extractAndSetCookies(loc[p].setCookieHeaders, store)
    /\ Finish(p, "Done", Returned)
    /\ UNCHANGED <<srvVars, args, inflight, calls, outcomes>>

(***************************************************************************)
(* getUsersStats() of server/get-users-stats-action.ts: requireAuth, then  *)
(* a plain fetch with getAuthHeaders.  (The variant that calls             *)
(* fetchWithAuth is Execute on StatsUrl.)                                  *)
(***************************************************************************)

\* await requireAuth(): throws without an access token.
GetUsersStats(p) ==
    /\ pc[p] = "Idle"
    /\ IF requireAuth(store) = Absent
       THEN Finish(p, "Failed", Failure(NoAuthToken))
       ELSE Goto(p, "StatsAuthed") /\ UNCHANGED <<loc, result>>
    /\ UNCHANGED <<store, srvVars, args, inflight, calls, outcomes>>

\* getAuthHeaders: getAuthToken.
StatsReadAccess(p) ==
    /\ pc[p] = "StatsAuthed"
    /\ loc' = [loc EXCEPT ![p].accessToken = getAuthToken(store)]
    /\ Goto(p, "StatsHeaders")
    /\ UNCHANGED <<store, srvVars, args, inflight, calls, result, outcomes>>

\* getAuthHeaders: getRefreshToken; then the call is issued.
StatsSend(p) ==
    /\ pc[p] = "StatsHeaders"
    /\ Issue(p, Call("stats", StatsUrl,
                     getAuthHeaders(loc[p].accessToken, getRefreshToken(store))))
    /\ loc' = [loc EXCEPT ![p].accessToken = Absent]
    /\ Goto(p, "StatsSent")
    /\ UNCHANGED <<store, srvVars, args, result, outcomes>>

\* Its outcome: a non-success status is thrown as an error, 401 included.
StatsResponse(p) ==
    /\ pc[p] = "StatsSent"
    /\ \E reply \in ProtectedReplies :
          /\ Served(reply)
          /\ IF reply.fault
             THEN Finish(p, "Failed", Failure("fetch failed"))
             ELSE IF ~Ok(reply.status)
             THEN Finish(p, "Failed", Failure("Failed to fetch stats"))
             ELSE Finish(p, "Done", Returned)
          /\ Arrived(p, reply)
    /\ UNCHANGED <<store, args, calls>>

(***************************************************************************)
(* The dashboard page: the Logout button.                                  *)
(***************************************************************************)

Redirected == [kind |-> "redirected", removed |-> "loginData", to |-> "/"]

\* handleLogout: sessionStorage.removeItem('loginData'); router.push('/').
\* (sessionStorage is the browser's; the cookie store is not touched.)
HandleLogout(p) ==
    /\ pc[p] = "Idle"
    /\ Finish(p, "Done", Redirected)
    /\ UNCHANGED <<store, srvVars, args, inflight, calls, outcomes>>

(***************************************************************************)
(* The cookie helpers on their own: from any store, on any list of         *)
(* Set-Cookie directives (drawn at the start, applied by the steps).       *)
(***************************************************************************)

\* Credential values a store or a directive can hold (Absent: none, or an
\* empty value), and the longest list of directives.
MaxToken == 2
MaxLen == 2

Tokens == Absent..MaxToken
\* The store that holds values a and r, each set the way extractAndSetCookies
\* sets it.
StoreOf(a, r) ==
    [access_token |-> a, refresh_token |-> r,
     maxAge |-> [access_token |-> IF a = Absent THEN Absent ELSE AccessMaxAge,
                 refresh_token |-> IF r = Absent THEN Absent ELSE RefreshMaxAge]]
Stores == {StoreOf(a, r) : a \in Tokens, r \in Tokens}
DirectiveNames == {"access_token", "refresh_token", "x_access_token", "theme"}
Directives == [name : DirectiveNames, value : Tokens]
DirectiveLists == UNION {[1..n -> Directives] : n \in 0..MaxLen}

\* The helper applied last: to what, on which store, with what outcome.
Applied(op, input, before, out) ==
    [kind |-> "applied", op |-> op, input |-> input, before |-> before, out |-> out]

LastOp ==
    IF \E q \in Procs : result[q].kind = "applied"
    THEN (CHOOSE r \in {result[q] : q \in Procs} : r.kind = "applied").op
    ELSE ""

Record(p, applied) ==
    result' = [q \in Procs |-> IF q = p THEN applied ELSE NoResult]

InitPure ==
    /\ store \in Stores
    /\ gen = 0
    /\ srvRefresh = Absent
    /\ revoked = FALSE
    /\ rotation = FALSE
    /\ pc = [p \in Procs |-> "Idle"]
    /\ args = [p \in Procs |-> NoArgs]
    /\ \E setCookieHeaders \in DirectiveLists :
          loc = [p \in Procs |-> [NoLoc EXCEPT !.setCookieHeaders = setCookieHeaders]]
    /\ inflight = [p \in Procs |-> NoCall]
    /\ calls = [p \in Procs |-> <<>>]
    /\ outcomes = [p \in Procs |-> <<>>]
    /\ result = [p \in Procs |-> NoResult]

ApplyExtractAndSetCookies(p) ==
    /\ LET setCookieHeaders == loc[p].setCookieHeaders
       IN  /\ store' = extractAndSetCookies(setCookieHeaders, store)
           /\ Record(p, Applied("extractAndSetCookies", setCookieHeaders, store, store'))
    /\ UNCHANGED <<srvVars, pc, args, loc, inflight, calls, outcomes>>

ApplyExtractAndSetCookie(p) ==
    /\ LET setCookieHeader == HeadersGet(loc[p].setCookieHeaders)
       IN  /\ store' = extractAndSetCookie(setCookieHeader, store)
           /\ Record(p, Applied("extractAndSetCookie", setCookieHeader, store, store'))
    /\ UNCHANGED <<srvVars, pc, args, loc, inflight, calls, outcomes>>

ApplyClearAuthCookies(p) ==
    /\ store' = clearAuthCookies(store)
    /\ Record(p, Applied("clearAuthCookies", LastOp, store, store'))
    /\ UNCHANGED <<srvVars, pc, args, loc, inflight, calls, outcomes>>

ApplyGetAuthHeaders(p) ==
    /\ Record(p, Applied("getAuthHeaders", <<>>, store,
                         getAuthHeaders(getAuthToken(store), getRefreshToken(store))))
    /\ UNCHANGED <<store, srvVars, pc, args, loc, inflight, calls, outcomes>>

NextPure ==
    \E p \in Procs :
        \/ ApplyExtractAndSetCookies(p)
        \/ ApplyExtractAndSetCookie(p)
        \/ ApplyClearAuthCookies(p)
        \/ ApplyGetAuthHeaders(p)

SpecPure == InitPure /\ [][NextPure]_vars

(***************************************************************************)
(* Specifications.                                                         *)
(***************************************************************************)

Step(p) ==
    \/ Execute(p)
    \/ ReadAccess(p)
    \/ SendInitial(p)
    \/ InitialResponse(p)
    \/ StartRenewal(p)
    \/ RenewalResponse(p)
    \/ ClearRejected(p)
    \/ Persist(p)
    \/ RereadAccess(p)
    \/ SendRetry(p)
    \/ RetryResponse(p)
    \/ CatchClear(p)
    \/ Return(p)
    \/ Login(p)
    \/ LoginResponse(p)
    \/ LoginPersist(p)
    \/ Logout(p)
    \/ LogoutResponse(p)
    \/ LogoutClear(p)
    \/ LoginGet(p)
    \/ LoginGetResponse(p)
    \/ LoginGetPersist(p)
    \/ GetUsersStats(p)
    \/ StatsReadAccess(p)
    \/ StatsSend(p)
    \/ StatsResponse(p)
    \/ HandleLogout(p)

\* Logical calls interleave at their suspension points.
Next == \E p \in Procs : Step(p)

Spec == Init /\ [][Next]_vars

\* One logical call at a time: a call starts only when no other is running.
Alone(p) == \A q \in Procs \ {p} : pc[q] = "Idle"

NextSeq == \E p \in Procs : Alone(p) /\ Step(p)

SpecSeq == Init /\ [][NextSeq]_vars

\* Every awaited step settles (a fetch is answered or rejects): the call that
\* is running takes its next step.
SpecTerm == Init /\ [][NextSeq]_vars /\ WF_vars(NextSeq)

\* A remote service that issues the two directives together or not at all.
PairedService(p) == Len(loc'[p].setCookieHeaders) # 1

NextPaired == \E p \in Procs : Step(p) /\ PairedService(p)

SpecPaired == Init /\ [][NextPaired]_vars

\* A refresh credential the remote service takes for valid.
ValidRefresh(tok) == tok # Absent /\ (rotation => tok = srvRefresh)

\* A remote service that honours what it issued: a renewal that presents a
\* valid refresh credential is answered with a new access credential (while
\* it has one left to issue), and a retry that presents the access credential
\* issued last is answered, with a status other than 401.
HonestService(p) ==
    /\ (pc[p] = "Renewing" /\ gen < MaxGen
          /\ ValidRefresh(CookieValue(inflight[p].headers, "refresh_token"))) =>
            /\ pc'[p] = "Persist"
            /\ \E i \in 1..Len(loc'[p].setCookieHeaders) :
                  loc'[p].setCookieHeaders[i] = PairDirectives(gen')[1]
    /\ (pc[p] = "Retried" /\ gen > 0
          /\ CookieValue(inflight[p].headers, "access_token") = AccessOf(gen)) =>
            /\ pc'[p] = "Done"
            /\ result'[p].status # 401

NextLive == \E p \in Procs : Alone(p) /\ Step(p) /\ HonestService(p)

\* Every awaited step settles: the call that is running takes its next step.
SpecLive == Init /\ [][NextLive]_vars /\ WF_vars(NextLive)

(***************************************************************************)
(* Properties.                                                             *)
(***************************************************************************)

Has(seq, x) == \E i \in 1..Len(seq) : seq[i] = x
Count(seq, x) == Cardinality({i \in 1..Len(seq) : seq[i] = x})

\* p runs fetchWithAuth and has issued its initial call.
IsExecute(p) == Len(calls[p]) > 0 /\ calls[p][1] = "initial"

\* The i-th request of p's logical call was answered with status s.
Got(p, i, s) ==
    /\ Len(outcomes[p]) >= i
    /\ ~outcomes[p][i].fault
    /\ outcomes[p][i].status = s

Answered(p, i) == Len(outcomes[p]) >= i /\ ~outcomes[p][i].fault
Faulted(p, i) == Len(outcomes[p]) >= i /\ outcomes[p][i].fault

FullProtocol == <<"initial", "renew", "retry">>

\* The access credential a list of Set-Cookie directives assigns.
NewAccess(directives) ==
    IF \E i \in 1..Len(directives) :
          directives[i].name = "access_token" /\ directives[i].value # Absent
    THEN LET i == CHOOSE i \in 1..Len(directives) :
                     directives[i].name = "access_token" /\ directives[i].value # Absent
         IN  directives[i].value
    ELSE Absent

\* p's renewal call was answered with a non-success status / ended in a fault.
RenewalRejected(p) ==
    IsExecute(p) /\ Answered(p, 2) /\ outcomes[p][2].status \notin 200..299
RenewalFaulted(p) == IsExecute(p) /\ Faulted(p, 2)

\* p's renewal call was answered with a success status; p is on its way to
\* the retry's response.
Accepted(p) == pc[p] \in {"Persist", "Renewed", "NewHeaders", "Retried"}

Fails(p) == pc[p] # "Failed" /\ pc'[p] = "Failed"

\* C1: when the initial call of fetchWithAuth is answered with a status other
\* than 401 (403 and 500 included), that response is the result and no renewal
\* and no retry call is issued; a renewal call is only ever issued by a logical
\* call whose initial call was answered 401.
C1_NoRenewalWithout401 ==
    \A p \in Procs :
        IsExecute(p) =>
          /\ (Answered(p, 1) /\ outcomes[p][1].status # 401) =>
                /\ pc[p] = "Done"
                /\ calls[p] = <<"initial">>
                /\ result[p] = Response("initial", outcomes[p][1].status)
          /\ (Has(calls[p], "renew") \/ Has(calls[p], "retry")) => Got(p, 1, 401)

C1_Witness ==
    \E p \in Procs :
        /\ pc[p] = "Done" /\ Got(p, 1, 500) /\ ~args[p].skipRefresh
        /\ store.refresh_token # Absent
        /\ result[p] = Response("initial", 500)

\* C2: running alone, a fetchWithAuth call whose initial call is answered 401
\* and whose retry is not has issued exactly initial, renewal, retry, in that
\* order; and when the renewal's reply assigned an access credential and the
\* caller passed no Cookie header of its own, the retry in flight carries that
\* newly issued access credential (the latest the service issued).
C2_OneRenewalOneRetryNewAccess ==
    \A p \in Procs :
        /\ (IsExecute(p) /\ Got(p, 1, 401) /\ Answered(p, 3)
              /\ outcomes[p][3].status # 401) =>
                (calls[p] = FullProtocol /\ Got(p, 2, 200))
        /\ (pc[p] = "Retried" /\ NewAccess(loc[p].setCookieHeaders) # Absent
              /\ "Cookie" \notin DOMAIN args[p].headers) =>
                /\ calls[p] = FullProtocol
                /\ inflight[p].kind = "retry"
                /\ CookieValue(inflight[p].headers, "access_token")
                      = NewAccess(loc[p].setCookieHeaders)
                /\ CookieValue(inflight[p].headers, "access_token") = AccessOf(gen)

C2_Witness ==
    \E p \in Procs :
        /\ pc[p] = "Done" /\ calls[p] = FullProtocol
        /\ Got(p, 1, 401) /\ Got(p, 2, 200) /\ Got(p, 3, 200)
        /\ "Cookie" \notin DOMAIN args[p].headers
        /\ gen = 2 /\ store.access_token = AccessOf(2) /\ store.refresh_token = RefreshOf(2)

\* C3: a logical call issues at most one renewal call, and when the retry is
\* answered 401 that response is the result: no second renewal, no second retry.
C3_Second401Returned ==
    \A p \in Procs :
        IsExecute(p) =>
          /\ Count(calls[p], "renew") <= 1
          /\ Got(p, 3, 401) =>
                /\ pc[p] = "Done"
                /\ calls[p] = FullProtocol
                /\ result[p] = Response("retry", 401)

C3_Witness ==
    \E p \in Procs : pc[p] = "Done" /\ Got(p, 2, 200) /\ Got(p, 3, 401)

\* C4: when the renewal call is answered with a non-success status, the retry
\* is never issued, the logical call fails with 'Session expired. Please login
\* again.', and the step that fails it leaves both credentials absent.
C4_RejectedRenewalClears ==
    /\ [](\A p \in Procs :
            RenewalRejected(p) =>
              /\ pc[p] \in {"Rejected", "Catch", "Failed"}
              /\ calls[p] = <<"initial", "renew">>
              /\ pc[p] = "Failed" => result[p] = Failure(SessionExpired))
    /\ [][\A p \in Procs :
            (RenewalRejected(p) /\ Fails(p)) => store' = EmptyStore]_vars

C4_Witness ==
    \E p \in Procs :
        /\ pc[p] = "Failed" /\ RenewalRejected(p)
        /\ result[p] = Failure(SessionExpired)
        /\ store = EmptyStore

C6_SkipRefreshReturns401 ==
    /\ [](\A p \in Procs :
            (IsExecute(p) /\ args[p].skipRefresh) =>
              /\ calls[p] = <<"initial">>
              /\ Got(p, 1, 401) =>
                    (pc[p] = "Done" /\ result[p] = Response("initial", 401)))
    /\ [][\A p \in Procs :
            (args[p].skipRefresh /\ pc'[p] # pc[p]) => store' = store]_vars

C6_Witness ==
    \E p \in Procs :
        /\ args[p].skipRefresh /\ pc[p] = "Done"
        /\ result[p] = Response("initial", 401)
        /\ store.refresh_token # Absent

\* C7: when the 401 is handled and the store holds no refresh credential, the
\* logical call fails with 'Unauthorized: No refresh token available' having
\* issued only its initial call, and that step leaves the store as it was.
C7_NoRefreshCredentialKeepsStore ==
    /\ [](\A p \in Procs :
            result[p] = Failure(NoRefreshCredential) =>
                (pc[p] = "Failed" /\ calls[p] = <<"initial">>))
    /\ [][\A p \in Procs :
            (pc[p] = "Unauthorized" /\ pc'[p] # pc[p]
               /\ store.refresh_token = Absent) =>
                /\ pc'[p] = "Failed"
                /\ result'[p] = Failure(NoRefreshCredential)
                /\ store' = store]_vars

C7_Witness ==
    \E p \in Procs :
        /\ pc[p] = "Failed" /\ result[p] = Failure(NoRefreshCredential)
        /\ store.access_token # Absent /\ store.refresh_token = Absent

\* C8 as stated: every failure with NoRefreshCredential or SessionExpired
\* leaves both credentials absent at the step that surfaces it.
C8_EveryCredentialFailureClears ==
    [][\A p \in Procs :
         (Fails(p) /\ result'[p] \in {Failure(NoRefreshCredential),
                                      Failure(SessionExpired)}) =>
            store' = EmptyStore]_vars

\* C8 amended: a SessionExpired failure leaves both credentials absent at the
\* step that surfaces it; a NoRefreshCredential failure clears nothing, it
\* leaves the store as it was.
C8_OnlySessionExpiredClears ==
    [][\A p \in Procs :
         Fails(p) =>
           /\ result'[p] = Failure(SessionExpired) => store' = EmptyStore
           /\ result'[p] = Failure(NoRefreshCredential) =>
                 (store' = store /\ store.refresh_token = Absent)]_vars

C8_Witness ==
    \E p, q \in Procs :
        /\ pc[p] = "Failed" /\ result[p] = Failure(NoRefreshCredential)
        /\ store.access_token # Absent
        /\ pc[q] = "Failed" /\ result[q] = Failure(SessionExpired)

\* C9: at most one renewal call is in flight at a time.
C9_RenewalSerialized ==
    Cardinality({p \in Procs : inflight[p].kind = "renew"}) <= 1

\* C10: a logical call that handles a 401 with a refresh credential in the
\* store issues its own renewal call presenting that stored value, whatever
\* other calls are doing; a service with rotation and reuse detection never
\* accepts two renewals presenting the same refresh credential.
C10_EachCallRenewsOnItsOwn ==
    /\ [](\A p, q \in Procs :
            (p # q /\ rotation /\ Accepted(p) /\ Accepted(q)) =>
                loc[p].refreshToken # loc[q].refreshToken)
    /\ [][\A p \in Procs :
            (pc[p] = "Unauthorized" /\ pc'[p] # pc[p]
               /\ store.refresh_token # Absent) =>
                /\ pc'[p] = "Renewing"
                /\ inflight'[p].kind = "renew"
                /\ inflight'[p].url = RefreshUrl
                /\ inflight'[p].headers["Cookie"]
                      = << <<"refresh_token", store.refresh_token>> >>]_vars

\* Two calls presented the same refresh credential; the first was accepted and
\* rotated it, the second was rejected and the session is revoked.
C10_Witness ==
    \E p, q \in Procs :
        /\ p # q /\ rotation /\ revoked /\ srvRefresh = Absent
        /\ Accepted(p) /\ pc[q] = "Rejected"
        /\ loc[p].refreshToken = loc[q].refreshToken
        /\ Got(p, 1, 401) /\ Got(q, 1, 401)

\* The helper p applied last.
Did(p, op) == result[p].kind = "applied" /\ result[p].op = op

\* A directive that assigns value v to cookie `name`.
Assigns(directive, name) == directive.name = name /\ directive.value # Absent

\* C12: extractAndSetCookies scans every directive.  Given two directives, one
\* per kind and in either order, the store afterwards holds both values; given
\* one directive only, the store holds its value for that kind and the other
\* kind's value is what it was before.
C12_IngestScansEveryDirective ==
    \A p \in Procs :
        Did(p, "extractAndSetCookies") =>
            LET ds == result[p].input
                before == result[p].before
            IN  /\ (Len(ds) = 2 /\ Assigns(ds[1], "access_token")
                       /\ Assigns(ds[2], "refresh_token")) =>
                        /\ getAuthToken(store) = ds[1].value
                        /\ getRefreshToken(store) = ds[2].value
                /\ (Len(ds) = 2 /\ Assigns(ds[1], "refresh_token")
                       /\ Assigns(ds[2], "access_token")) =>
                        /\ getAuthToken(store) = ds[2].value
                        /\ getRefreshToken(store) = ds[1].value
                /\ (Len(ds) = 1 /\ Assigns(ds[1], "access_token")) =>
                        /\ getAuthToken(store) = ds[1].value
                        /\ getRefreshToken(store) = before.refresh_token
                /\ (Len(ds) = 1 /\ Assigns(ds[1], "refresh_token")) =>
                        /\ getRefreshToken(store) = ds[1].value
                        /\ getAuthToken(store) = before.access_token

\* Two directives, the refresh one second, onto a store that held another pair.
C12_Witness ==
    \E p \in Procs :
        /\ Did(p, "extractAndSetCookies")
        /\ result[p].input = << [name |-> "access_token", value |-> 1],
                                [name |-> "refresh_token", value |-> 2] >>
        /\ result[p].before.access_token = 2 /\ result[p].before.refresh_token = 1
        /\ store.access_token = 1 /\ store.refresh_token = 2

\* C14: after clearAuthCookies both getAuthToken and getRefreshToken give
\* Absent, whatever the store held; applied again to the cleared store it
\* gives the same empty store.
C14_ClearIdempotent ==
    \A p \in Procs :
        Did(p, "clearAuthCookies") =>
            /\ getAuthToken(store) = Absent
            /\ getRefreshToken(store) = Absent
            /\ store = EmptyStore
            /\ clearAuthCookies(store) = store
            /\ clearAuthCookies(clearAuthCookies(result[p].before)) = store

\* clearAuthCookies applied right after clearAuthCookies.
C14_Witness ==
    \E p \in Procs :
        /\ Did(p, "clearAuthCookies")
        /\ result[p].input = "clearAuthCookies"
        /\ result[p].before = EmptyStore
        /\ store = EmptyStore

\* C16: getAuthHeaders always gives Content-Type: application/json; with at
\* least one token in the store it gives exactly one more entry, Cookie, that
\* lists the tokens present, access first; with none it gives no other entry.
C16_AuthHeaders ==
    \A p \in Procs :
        Did(p, "getAuthHeaders") =>
            LET headers == result[p].out
                a == store.access_token
                r == store.refresh_token
            IN  /\ "Content-Type" \in DOMAIN headers
                /\ headers["Content-Type"] = JsonType
                /\ (a = Absent /\ r = Absent) => DOMAIN headers = {"Content-Type"}
                /\ (a # Absent \/ r # Absent) =>
                        DOMAIN headers = {"Content-Type", "Cookie"}
                /\ (a # Absent /\ r # Absent) =>
                        headers["Cookie"] = << <<"access_token", a>>,
                                               <<"refresh_token", r>> >>
                /\ (a # Absent /\ r = Absent) =>
                        headers["Cookie"] = << <<"access_token", a>> >>
                /\ (a = Absent /\ r # Absent) =>
                        headers["Cookie"] = << <<"refresh_token", r>> >>

C16_Witness ==
    \E p \in Procs :
        /\ Did(p, "getAuthHeaders")
        /\ store.access_token = Absent /\ store.refresh_token = 2
        /\ result[p].out["Cookie"] = << <<"refresh_token", 2>> >>

\* C11: one fetchWithAuth call, nothing else running, no Cookie header of the
\* caller's own: once its initial call is answered 401 while the store holds a
\* valid refresh credential, and the remote service honours what it issues, the
\* call eventually returns the retry's response, whose status is not 401.
C11_RenewedCallSucceeds ==
    \A p \in Procs :
        (/\ pc[p] = "Unauthorized"
         /\ "Cookie" \notin DOMAIN args[p].headers
         /\ gen < MaxGen
         /\ ValidRefresh(store.refresh_token))
        ~> (/\ pc[p] = "Done"
            /\ calls[p] = FullProtocol
            /\ result[p].kind = "response"
            /\ result[p].call = "retry"
            /\ result[p].status # 401)

C11_Witness ==
    \E p \in Procs :
        /\ pc[p] = "Done" /\ calls[p] = FullProtocol /\ rotation
        /\ Got(p, 1, 401) /\ Got(p, 2, 200)
        /\ "Cookie" \notin DOMAIN args[p].headers
        /\ result[p] = Response("retry", 200)
        /\ store.access_token = AccessOf(gen) /\ srvRefresh = RefreshOf(gen)

\* C13: the persisting step of a successful login whose reply carried the two
\* directives leaves the store holding that pair.
C13_LoginStoresPair ==
    [][\A p \in Procs :
         (pc[p] \in {"LoginPersist", "LoginGetPersist"} /\ pc'[p] = "Done"
            /\ Len(loc[p].setCookieHeaders) = 2) =>
                /\ store'.access_token = AccessOf(gen)
                /\ store'.refresh_token = RefreshOf(gen)]_vars

\* C15: logout with a refresh token in the store issues the logout call with
\* that token as its Cookie; whatever the call's outcome the next step is
\* clearAuthCookies, which leaves both credentials absent, and logout returns:
\* no logout ever fails.
C15_LogoutAlwaysClears ==
    /\ [](\A p \in Procs :
            (Len(calls[p]) > 0 /\ calls[p][1] = "logout") =>
                /\ calls[p] = <<"logout">>
                /\ pc[p] \in {"LogoutSent", "LogoutClear", "Done"}
                /\ pc[p] = "Done" => result[p] = Returned)
    /\ [][\A p \in Procs :
            /\ (pc[p] = "Idle" /\ pc'[p] \in {"LogoutSent", "LogoutClear"}
                   /\ store.refresh_token # Absent) =>
                    /\ pc'[p] = "LogoutSent"
                    /\ inflight'[p].kind = "logout"
                    /\ inflight'[p].url = LogoutUrl
                    /\ inflight'[p].headers["Cookie"]
                          = << <<"refresh_token", store.refresh_token>> >>
            /\ (pc[p] = "LogoutSent" /\ pc'[p] # pc[p]) =>
                    (pc'[p] = "LogoutClear" /\ Len(outcomes'[p]) = 1)
            /\ (pc[p] = "LogoutClear" /\ pc'[p] # pc[p]) =>
                    /\ pc'[p] = "Done"
                    /\ result'[p] = Returned
                    /\ store' = EmptyStore]_vars

\* The logout call ended in a fault; logout returned and the store is empty.
C15_Witness ==
    \E p \in Procs :
        /\ pc[p] = "Done" /\ calls[p] = <<"logout">> /\ Faulted(p, 1)
        /\ result[p] = Returned
        /\ store = EmptyStore /\ gen > 0

\* C17: the headers of the initial call and of the retry hold every header the
\* caller passed, with the caller's value; Content-Type: application/json and
\* the Cookie of the credentials read are there only under the keys the
\* caller did not set.
C17_CallerHeadersWin ==
    [][\A p \in Procs :
         (pc[p] \in {"Headers", "NewHeaders"} /\ pc'[p] # pc[p]) =>
            LET sent == inflight'[p].headers
                caller == args[p].headers
                cookie == CookieHeader(loc[p].accessToken, store.refresh_token)
            IN  /\ inflight'[p].kind = (IF pc[p] = "Headers" THEN "initial" ELSE "retry")
                /\ \A k \in DOMAIN caller : sent[k] = caller[k]
                /\ DOMAIN sent = DOMAIN caller \cup {"Content-Type"}
                                    \cup (IF cookie # <<>> THEN {"Cookie"} ELSE {})
                /\ "Content-Type" \notin DOMAIN caller => sent["Content-Type"] = JsonType
                /\ ("Cookie" \notin DOMAIN caller /\ cookie # <<>>) =>
                        sent["Cookie"] = cookie]_vars

\* A retry in flight with the caller's Cookie and Content-Type in place of the
\* renewed credentials.
C17_Witness ==
    \E p \in Procs :
        /\ inflight[p].kind = "retry"
        /\ args[p].headers = CallerOverride
        /\ inflight[p].headers["Cookie"] = CallerCookie
        /\ inflight[p].headers["Content-Type"] = "text/plain"
        /\ store.access_token # Absent /\ store.refresh_token # Absent

\* C18: no call fails with 'No authentication token found' while the store
\* holds a refresh credential.
C18_StatsNeverFailsFast ==
    [][\A p \in Procs :
         (Fails(p) /\ result'[p] = Failure(NoAuthToken)) =>
            store.refresh_token = Absent]_vars

\* C19: the requireAuth step goes on when the store holds an access token (the
\* value it returns) and fails with 'No authentication token found' when it
\* holds none; either way it issues no call and changes neither the store nor
\* anything at the remote service.
C19_RequireAuthFailsFast ==
    /\ [](\A p \in Procs :
            result[p] = Failure(NoAuthToken) => (pc[p] = "Failed" /\ calls[p] = <<>>))
    /\ [][\A p \in Procs :
            (pc[p] = "Idle" /\ (pc'[p] = "StatsAuthed"
                                  \/ result'[p] = Failure(NoAuthToken))) =>
                /\ store.access_token # Absent =>
                        (pc'[p] = "StatsAuthed" /\ requireAuth(store) = store.access_token)
                /\ store.access_token = Absent =>
                        (pc'[p] = "Failed" /\ result'[p] = Failure(NoAuthToken))
                /\ UNCHANGED <<store, srvVars, inflight, calls, outcomes>>]_vars

\* requireAuth failed although a refresh token is stored: nothing was renewed.
C19_Witness ==
    \E p \in Procs :
        /\ pc[p] = "Failed" /\ result[p] = Failure(NoAuthToken)
        /\ calls[p] = <<>>
        /\ store.access_token = Absent /\ store.refresh_token # Absent

\* C20: with a remote service that issues the two directives together, the
\* store holds, at every moment, either nothing or the two credentials of one
\* issued pair.
C20_PairAtomic ==
    \/ store = EmptyStore
    \/ \E g \in 1..gen :
          store.access_token = AccessOf(g) /\ store.refresh_token = RefreshOf(g)

\* A login's pair was stored, then a renewal replaced it by the next pair.
C20_Witness ==
    \E p, q \in Procs :
        /\ p # q /\ gen = 2
        /\ pc[p] = "Done" /\ calls[p] = FullProtocol
        /\ pc[q] = "Done" /\ calls[q] = <<"login">>
        /\ store.access_token = AccessOf(2) /\ store.refresh_token = RefreshOf(2)

\* The labels of a fetchWithAuth call that has not returned or thrown yet.
Running ==
    {"Initial", "Headers", "Sent", "Unauthorized", "Renewing", "Rejected",
     "Persist", "Renewed", "NewHeaders", "Retried", "Catch"}

\* C21: the store changes only in a step that persists the directives of a
\* successful login or of a successful renewal, in the clearing step of
\* logout, or in a clearing step that follows a rejected or faulted renewal.
C21_StoreChangesInFourSteps ==
    [][store' # store =>
         \E p \in Procs :
            \/ pc[p] \in {"LoginPersist", "LoginGetPersist"} /\ pc'[p] = "Done"
            \/ pc[p] = "Persist" /\ pc'[p] = "Renewed"
            \/ pc[p] = "LogoutClear" /\ pc'[p] = "Done" /\ store' = EmptyStore
            \/ /\ pc[p] \in {"Rejected", "Catch"} /\ pc'[p] # pc[p]
               /\ RenewalRejected(p) \/ RenewalFaulted(p)
               /\ store' = EmptyStore]_vars

\* C22: running alone, once the renewal's reply carried the two directives of
\* a new pair, the store holds exactly that pair from the persisting step on:
\* when the retry is issued, while it is in flight, and when its response is
\* returned, a step that does not touch the store.
C22_RenewedPairReplacesPrior ==
    /\ [](\A p \in Procs :
            (pc[p] \in {"Renewed", "NewHeaders", "Retried"}
               /\ loc[p].setCookieHeaders = PairDirectives(gen)) =>
                /\ getAuthToken(store) = AccessOf(gen)
                /\ getRefreshToken(store) = RefreshOf(gen)
                /\ store = StoreOf(AccessOf(gen), RefreshOf(gen)))
    /\ [][\A p \in Procs :
            (pc[p] = "Retried" /\ pc'[p] = "Done") =>
                /\ store' = store
                /\ result'[p] = Response("retry", outcomes'[p][3].status)]_vars

\* The second pair replaced the first; the retry's response was returned.
C22_Witness ==
    \E p \in Procs :
        /\ pc[p] = "Done" /\ calls[p] = FullProtocol /\ gen = 2
        /\ Got(p, 1, 401) /\ Got(p, 2, 200) /\ Got(p, 3, 200)
        /\ result[p] = Response("retry", 200)
        /\ store = StoreOf(AccessOf(2), RefreshOf(2))

\* C23: an access_token in the store was set with maxAge 900, a refresh_token
\* with maxAge 604800.
C23_KindExpiry ==
    /\ store.access_token # Absent => store.maxAge.access_token = 900
    /\ store.refresh_token # Absent => store.maxAge.refresh_token = 604800

\* C24: the step of the dashboard's Logout button leaves both credentials
\* absent.
C24_DashboardLogoutClears ==
    [][\A p \in Procs :
         (pc[p] = "Idle" /\ result'[p] = Redirected) => store' = EmptyStore]_vars

\* C25: a fetchWithAuth call issues its requests as a prefix of initial,
\* renewal, retry: the original request at most twice, the renewal at most
\* once; and a renewal answered 401 is followed by no further request.
C25_AtMostTwoCallsOneRenewal ==
    \A p \in Procs :
        IsExecute(p) =>
          /\ Len(calls[p]) <= 3
          /\ \A i \in 1..Len(calls[p]) : calls[p][i] = FullProtocol[i]
          /\ Count(calls[p], "initial") + Count(calls[p], "retry") <= 2
          /\ Count(calls[p], "renew") <= 1
          /\ Got(p, 2, 401) =>
                (calls[p] = <<"initial", "renew">>
                   /\ pc[p] \in {"Rejected", "Catch", "Failed"})

\* The renewal call itself was answered 401: the call failed, nothing nested.
C25_Witness ==
    \E p \in Procs :
        /\ pc[p] = "Failed" /\ calls[p] = <<"initial", "renew">>
        /\ Got(p, 1, 401) /\ Got(p, 2, 401)

\* C26: every fetchWithAuth call that is running eventually returns a
\* response or throws.
C26_ExecuteTerminates ==
    \A p \in Procs : (pc[p] \in Running) ~> (pc[p] \in {"Done", "Failed"})

\* A call that went all the way to the retry and threw on its fault.
C26_Witness ==
    \E p \in Procs :
        /\ pc[p] = "Failed" /\ calls[p] = FullProtocol /\ Faulted(p, 3)
        /\ result[p] = Failure("fetch failed")

\* C27: a call has at most one request outstanding and issues one only when
\* none is; the renewal is issued after the initial call's 401 has arrived,
\* the directives are persisted after the renewal's response has arrived, and
\* the retry is issued after the persisting step.
C27_StrictlySequential ==
    /\ [](\A p \in Procs :
            IsExecute(p) =>
              /\ Len(calls[p]) - Len(outcomes[p])
                    = (IF inflight[p].kind = "none" THEN 0 ELSE 1)
              /\ inflight[p].kind # "none" => inflight[p].kind = calls[p][Len(calls[p])]
              /\ Has(calls[p], "renew") => Got(p, 1, 401)
              /\ pc[p] = "Persist" =>
                    /\ Got(p, 2, 200)
                    /\ inflight[p].kind = "none"
                    /\ calls[p] = <<"initial", "renew">>
              /\ Has(calls[p], "retry") =>
                    (Got(p, 2, 200) /\ pc[p] \notin {"Renewing", "Persist", "Renewed"}))
    /\ [][\A p \in Procs :
            /\ Len(calls'[p]) > Len(calls[p]) => inflight[p].kind = "none"
            /\ (pc'[p] = "Retried" /\ pc[p] # "Retried") => pc[p] = "NewHeaders"
            /\ (pc'[p] = "NewHeaders" /\ pc[p] # "NewHeaders") => pc[p] = "Renewed"
            /\ (pc'[p] = "Renewed" /\ pc[p] = "Persist") =>
                    store' = extractAndSetCookies(loc[p].setCookieHeaders, store)]_vars

C27_Witness ==
    \E p \in Procs :
        /\ inflight[p].kind = "retry" /\ Len(outcomes[p]) = 2
        /\ Got(p, 1, 401) /\ Got(p, 2, 200)
        /\ Len(loc[p].setCookieHeaders) = 2

\* C28: the retry goes to the URL and with the method and the headers the
\* caller gave, which do not change while the call runs; its Cookie is built
\* from the access token read from the store after the renewal and the
\* refresh token read when the retry is issued.
C28_RetryReissuesOriginal ==
    [][\A p \in Procs :
         /\ (pc[p] \in Running /\ pc'[p] \in Running) => args'[p] = args[p]
         /\ (pc[p] = "Renewed" /\ pc'[p] # pc[p]) =>
                loc'[p].accessToken = store.access_token
         /\ (pc[p] = "NewHeaders" /\ pc'[p] # pc[p]) =>
                LET retry == inflight'[p]
                    cookie == (IF loc[p].accessToken # Absent
                               THEN << <<"access_token", loc[p].accessToken>> >>
                               ELSE <<>>)
                              \o (IF store.refresh_token # Absent
                                  THEN << <<"refresh_token", store.refresh_token>> >>
                                  ELSE <<>>)
                IN  /\ retry.kind = "retry"
                    /\ retry.url = args[p].url
                    /\ retry.method = args[p].method
                    /\ \A k \in DOMAIN args[p].headers :
                          retry.headers[k] = args[p].headers[k]
                    /\ "Cookie" \notin DOMAIN args[p].headers =>
                          (IF cookie = <<>>
                           THEN "Cookie" \notin DOMAIN retry.headers
                           ELSE /\ "Cookie" \in DOMAIN retry.headers
                                /\ retry.headers["Cookie"] = cookie)]_vars

\* The retry in flight carries the second pair, not the one the initial call
\* was sent with.
C28_Witness ==
    \E p \in Procs :
        /\ inflight[p].kind = "retry" /\ gen = 2
        /\ inflight[p].url = StatsUrl /\ inflight[p].method = "GET"
        /\ inflight[p].headers["Cookie"] = << <<"access_token", AccessOf(2)>>,
                                              <<"refresh_token", RefreshOf(2)>> >>

\* C29: a renewal call goes to the refresh endpoint, whatever URL the call was
\* for, and its Cookie holds one pair, the refresh token read from the store;
\* it carries no access token.
C29_RenewalCarriesOnlyRefresh ==
    \A p \in Procs :
        inflight[p].kind = "renew" =>
            /\ inflight[p].url = RefreshUrl
            /\ inflight[p].url # args[p].url
            /\ DOMAIN inflight[p].headers = {"Content-Type", "Cookie"}
            /\ inflight[p].headers["Cookie"]
                  = << <<"refresh_token", loc[p].refreshToken>> >>
            /\ loc[p].refreshToken # Absent
            /\ CookieValue(inflight[p].headers, "access_token") = Absent

\* A renewal in flight while the store holds an access token too.
C29_Witness ==
    \E p \in Procs :
        /\ inflight[p].kind = "renew"
        /\ store.access_token # Absent
        /\ store.refresh_token = loc[p].refreshToken

\* C30: every fetchWithAuth call issues its initial call, whatever the store
\* holds: the two steps after the invocation read the store and send, and the
\* call carries the credentials that were there, none when there were none.
C30_NoLocalCheck ==
    /\ [](\A p \in Procs :
            pc[p] \in (Running \ {"Initial", "Headers"}) => IsExecute(p))
    /\ [][\A p \in Procs :
            /\ (pc[p] = "Initial" /\ pc'[p] # pc[p]) => pc'[p] = "Headers"
            /\ (pc[p] = "Headers" /\ pc'[p] # pc[p]) =>
                    /\ pc'[p] = "Sent"
                    /\ inflight'[p].kind = "initial"
                    /\ inflight'[p].url = args[p].url
                    /\ "Cookie" \notin DOMAIN args[p].headers =>
                          /\ CookieValue(inflight'[p].headers, "access_token")
                                = loc[p].accessToken
                          /\ CookieValue(inflight'[p].headers, "refresh_token")
                                = store.refresh_token]_vars

\* The initial call in flight from an empty store, with no Cookie at all.
C30_Witness ==
    \E p \in Procs :
        /\ inflight[p].kind = "initial"
        /\ store = EmptyStore /\ gen = 0
        /\ DOMAIN inflight[p].headers = {"Content-Type"}

\* C31: when the retry's fetch rejects, after a renewal that was answered with
\* a success status, fetchWithAuth goes through its catch block: the next step
\* empties the store, whatever the renewal has just persisted, and the call
\* fails with the retry's fault.
C31_RetryFaultClears ==
    /\ [](\A p \in Procs :
            (IsExecute(p) /\ Faulted(p, 3)) =>
                /\ Got(p, 2, 200)
                /\ pc[p] \in {"Catch", "Failed"}
                /\ pc[p] = "Catch" => loc[p].error = "fetch failed"
                /\ pc[p] = "Failed" => result[p] = Failure("fetch failed"))
    /\ [][\A p \in Procs :
            (pc[p] = "Catch" /\ Faulted(p, 3) /\ pc'[p] # pc[p]) =>
                /\ store' = EmptyStore
                /\ pc'[p] = "Failed"
                /\ result'[p] = Failure("fetch failed")]_vars

\* The second pair was issued by the renewal, the retry faulted, and the
\* store is empty when the call has failed.
C31_Witness ==
    \E p \in Procs :
        /\ pc[p] = "Failed" /\ calls[p] = FullProtocol /\ gen = 2
        /\ Got(p, 1, 401) /\ Got(p, 2, 200) /\ Faulted(p, 3)
        /\ result[p] = Failure("fetch failed")
        /\ store = EmptyStore

\* The credentials a request carries in its Cookie header are those of the
\* store.
CarriesStore(call) ==
    /\ CookieValue(call.headers, "access_token") = store.access_token
    /\ CookieValue(call.headers, "refresh_token") = store.refresh_token

\* C32: running alone, a renewal answered with a success status and no
\* Set-Cookie directive skips the persisting step and fails nothing; the store
\* is the same from the initial call to the retry, the retry is issued, and
\* the initial call and the retry both carry the credentials of that store.
C32_EmptyRenewalRetriesStale ==
    /\ [](\A p \in Procs :
            /\ (pc[p] \in {"Renewed", "NewHeaders", "Retried"}
                  /\ loc[p].setCookieHeaders = <<>>) => Got(p, 2, 200)
            /\ (inflight[p].kind = "initial"
                  /\ "Cookie" \notin DOMAIN args[p].headers) =>
                    CarriesStore(inflight[p])
            /\ (inflight[p].kind = "retry" /\ loc[p].setCookieHeaders = <<>>
                  /\ "Cookie" \notin DOMAIN args[p].headers) =>
                    CarriesStore(inflight[p]))
    /\ [][\A p \in Procs :
            /\ (pc[p] = "Renewing" /\ Len(outcomes'[p]) = 2
                  /\ ~outcomes'[p][2].fault /\ Ok(outcomes'[p][2].status)
                  /\ loc'[p].setCookieHeaders = <<>>) =>
                    pc'[p] = "Renewed"
            /\ (pc[p] \in {"Sent", "Unauthorized", "Renewing", "Renewed", "NewHeaders"}
                  /\ pc'[p] \in {"Unauthorized", "Renewing", "Renewed", "NewHeaders",
                                 "Retried"}) =>
                    store' = store
            /\ (pc[p] = "NewHeaders" /\ pc'[p] # pc[p]) =>
                    /\ pc'[p] = "Retried"
                    /\ inflight'[p].kind = "retry"
                    /\ inflight'[p].url = args[p].url]_vars

\* The retry is in flight after a renewal that carried no directive; it
\* carries the first pair, the one that was answered with 401.
C32_Witness ==
    \E p \in Procs :
        /\ pc[p] = "Retried" /\ inflight[p].kind = "retry"
        /\ Got(p, 1, 401) /\ Got(p, 2, 200)
        /\ loc[p].setCookieHeaders = <<>>
        /\ store = StoreOf(AccessOf(1), RefreshOf(1))
        /\ CookieValue(inflight[p].headers, "access_token") = AccessOf(1)
        /\ CookieValue(inflight[p].headers, "refresh_token") = RefreshOf(1)

\* C33: a retry answered with 401 or any other non-success status is
\* returned: that step leaves the store alone, and running alone the pair the
\* renewal persisted is the store's pair when fetchWithAuth returns.
C33_FailedRetryKeepsPair ==
    /\ [](\A p \in Procs :
            (IsExecute(p) /\ Answered(p, 3)) =>
                /\ pc[p] = "Done"
                /\ result[p] = Response("retry", outcomes[p][3].status))
    /\ [][\A p \in Procs :
            (pc[p] = "Retried" /\ pc'[p] # pc[p]
               /\ ~outcomes'[p][3].fault /\ ~Ok(outcomes'[p][3].status)) =>
                /\ store' = store
                /\ loc[p].setCookieHeaders = PairDirectives(gen) =>
                      store' = StoreOf(AccessOf(gen), RefreshOf(gen))]_vars

\* The retry was answered with 401 and returned; the store holds the second
\* pair, the one the renewal issued.
C33_Witness ==
    \E p \in Procs :
        /\ pc[p] = "Done" /\ calls[p] = FullProtocol /\ gen = 2
        /\ Got(p, 1, 401) /\ Got(p, 2, 200) /\ Got(p, 3, 401)
        /\ result[p] = Response("retry", 401)
        /\ store = StoreOf(AccessOf(2), RefreshOf(2))

\* q has persisted the directives of its renewal and is on its way to the
\* retry's response.
Persisted(q) ==
    /\ pc[q] \in {"Renewed", "NewHeaders", "Retried"}
    /\ loc[q].setCookieHeaders # <<>>

\* C34: a clearing step that follows the rejected or faulted renewal of one
\* call empties the store even when another call has persisted the pair of its
\* own successful renewal; the other call is not told.
C34_ClearWipesOthersPair ==
    [][\A p, q \in Procs :
          (p # q /\ pc[p] \in {"Rejected", "Catch"} /\ pc'[p] # pc[p]
             /\ (RenewalRejected(p) \/ RenewalFaulted(p))
             /\ Persisted(q)) =>
              /\ store' = EmptyStore
              /\ pc'[q] = pc[q] /\ loc'[q] = loc[q]
              /\ inflight'[q] = inflight[q]]_vars

\* q's renewal succeeded and q persisted its pair; p's renewal was rejected
\* and p has failed; the store is empty.
C34_Witness ==
    \E p, q \in Procs :
        /\ p # q
        /\ pc[p] = "Failed" /\ RenewalRejected(p)
        /\ result[p] = Failure(SessionExpired)
        /\ pc[q] = "Retried" /\ Got(q, 2, 200)
        /\ loc[q].setCookieHeaders = PairDirectives(gen)
        /\ store = EmptyStore

\* C35: a call that has observed a 401 and is past the handling of it has
\* issued a renewal of its own, unless the store had no refresh credential
\* then; the refresh credential the renewal presents is the one the store
\* holds at the step that handles the 401, read then, whatever the initial
\* call carried.
C35_RenewalPresentsCurrentRefresh ==
    /\ [](\A p \in Procs :
            /\ (IsExecute(p) /\ Got(p, 1, 401) /\ ~args[p].skipRefresh
                  /\ pc[p] # "Unauthorized") =>
                    \/ Len(calls[p]) >= 2 /\ calls[p][2] = "renew"
                    \/ pc[p] = "Failed" /\ result[p] = Failure(NoRefreshCredential)
            /\ pc[p] = "Renewing" =>
                    /\ inflight[p].kind = "renew"
                    /\ CookieValue(inflight[p].headers, "refresh_token")
                          = loc[p].refreshToken)
    /\ [][\A p \in Procs :
            (pc[p] = "Unauthorized" /\ pc'[p] = "Renewing") =>
                /\ loc'[p].refreshToken = store.refresh_token
                /\ CookieValue(inflight'[p].headers, "refresh_token")
                      = store.refresh_token]_vars

\* The initial call carried the first refresh credential; another call has
\* replaced the pair since; the renewal in flight presents the second.
C35_Witness ==
    \E p \in Procs :
        /\ pc[p] = "Renewing" /\ inflight[p].kind = "renew"
        /\ CookieValue(loc[p].headers, "refresh_token") = RefreshOf(1)
        /\ CookieValue(inflight[p].headers, "refresh_token") = RefreshOf(2)
        /\ store.refresh_token = RefreshOf(2)

\* C36: every step that changes the store is one whole extractAndSetCookies
\* on the directives the process holds, or one whole clearAuthCookies: the two
\* writes, or the two deletes, are in one step, and no state lies between
\* them for another process to read or to write in.
C36_IngestAndClearAtomic ==
    [][store' # store =>
         \E p \in Procs :
            /\ pc'[p] # pc[p]
            /\ \A q \in Procs \ {p} : pc'[q] = pc[q]
            /\ \/ /\ pc[p] \in {"Persist", "LoginPersist", "LoginGetPersist"}
                  /\ store' = extractAndSetCookies(loc[p].setCookieHeaders, store)
               \/ /\ pc[p] \in {"Rejected", "Catch", "LogoutClear"}
                  /\ store' = EmptyStore]_vars

\* p has written the second pair over the first while q is in the middle of
\* a call of its own.
C36_Witness ==
    \E p, q \in Procs :
        /\ p # q
        /\ pc[p] = "Renewed" /\ loc[p].setCookieHeaders = PairDirectives(2)
        /\ store = StoreOf(AccessOf(2), RefreshOf(2))
        /\ pc[q] \in Running /\ IsExecute(q)

\* C37: when the initial call's fetch rejects, fetchWithAuth fails with that
\* fault: the initial call is the only call it has issued, and the step leaves
\* the store alone.
C37_InitialFaultPropagates ==
    /\ [](\A p \in Procs :
            (IsExecute(p) /\ Faulted(p, 1)) =>
                /\ pc[p] = "Failed"
                /\ calls[p] = <<"initial">>
                /\ inflight[p] = NoCall
                /\ result[p] = Failure("fetch failed"))
    /\ [][\A p \in Procs :
            (pc[p] = "Sent" /\ pc'[p] = "Failed") =>
                /\ outcomes'[p][1].fault
                /\ store' = store]_vars

\* The initial call faulted while the store held a pair.
C37_Witness ==
    \E p \in Procs :
        /\ pc[p] = "Failed" /\ calls[p] = <<"initial">> /\ Faulted(p, 1)
        /\ result[p] = Failure("fetch failed")
        /\ store.access_token # Absent /\ store.refresh_token # Absent

\* C38: logout issues its call exactly when the store holds a refresh
\* credential; without one it goes straight to clearAuthCookies, and the
\* clearing step empties the store.
C38_LogoutWithoutRefresh ==
    /\ [](\A p \in Procs :
            pc[p] = "LogoutClear" =>
                /\ inflight[p] = NoCall
                /\ calls[p] \in {<<>>, <<"logout">>})
    /\ [][\A p \in Procs :
            /\ (pc[p] = "Idle" /\ pc'[p] = "LogoutClear") =>
                    /\ store.refresh_token = Absent
                    /\ calls'[p] = <<>> /\ inflight'[p] = NoCall
                    /\ store' = store
            /\ (pc[p] = "Idle" /\ pc'[p] = "LogoutSent") =>
                    store.refresh_token # Absent
            /\ (pc[p] = "LogoutClear" /\ calls[p] = <<>> /\ pc'[p] # pc[p]) =>
                    /\ store' = EmptyStore
                    /\ calls'[p] = <<>>
                    /\ pc'[p] = "Done" /\ result'[p] = Returned]_vars

\* logout found an access credential and no refresh credential: it is about
\* to clear the store and has issued no call.
C38_Witness ==
    \E p \in Procs :
        /\ pc[p] = "LogoutClear" /\ calls[p] = <<>> /\ inflight[p] = NoCall
        /\ store.access_token # Absent /\ store.refresh_token = Absent

\* C39: a login call answered with a non-success status fails the login with
\* an error, in either version of login: no persisting step is taken and the
\* step leaves the store alone.
C39_FailedLoginKeepsStore ==
    /\ [](\A p \in Procs :
            (Len(calls[p]) > 0 /\ calls[p][1] = "login" /\ Answered(p, 1)
               /\ ~(outcomes[p][1].status \in 200..299)) =>
                /\ pc[p] = "Failed"
                /\ result[p] = Failure("Login failed"))
    /\ [][\A p \in Procs :
            (pc[p] \in {"LoginSent", "LoginGetSent"} /\ pc'[p] = "Failed") =>
                store' = store]_vars

\* The login was answered with 401 and failed; the store holds the pair of an
\* earlier login.
C39_Witness ==
    \E p \in Procs :
        /\ pc[p] = "Failed" /\ calls[p] = <<"login">> /\ Got(p, 1, 401)
        /\ result[p] = Failure("Login failed")
        /\ store = StoreOf(AccessOf(1), RefreshOf(1))

====
